---- MODULE Spec2Model ----
(***************************************************************************)
(* Payslip generator: the two server variants of the repository,           *)
(*   "server"  = src/Backend/server.js   (pool.query, autocommit)           *)
(*   "part000" = src/unnamed/part_000    (pooled client, BEGIN .. COMMIT)   *)
(* modelled as request handlers that run concurrently against one          *)
(* payslips table.  Strings the code inspects are sequences of one-        *)
(* character strings; JSON values are tagged records (JS).                 *)
(***************************************************************************)
EXTENDS Integers, Sequences, FiniteSets, TLC

(***************************************************************************)
(* Characters and strings                                                  *)
(***************************************************************************)
LowerSeq == <<"a","b","c","d","e","f","g","h","i","j","k","l","m",
              "n","o","p","q","r","s","t","u","v","w","x","y","z">>
UpperSeq == <<"A","B","C","D","E","F","G","H","I","J","K","L","M",
              "N","O","P","Q","R","S","T","U","V","W","X","Y","Z">>
DigitSeq == <<"0","1","2","3","4","5","6","7","8","9">>

Lower == {LowerSeq[i] : i \in 1..26}
Upper == {UpperSeq[i] : i \in 1..26}
Alpha == Lower \cup Upper
Digit == {DigitSeq[i] : i \in 1..10}
\* \s of a JavaScript regular expression (the members the inputs use)
Whitespace == {" ", "\t"}

AllIn(s, S) == \A i \in 1..Len(s) : s[i] \in S

\* String.prototype.toUpperCase / toLowerCase, one character
UpperChar(c) == IF c \in Lower THEN UpperSeq[CHOOSE i \in 1..26 : LowerSeq[i] = c] ELSE c
LowerChar(c) == IF c \in Upper THEN LowerSeq[CHOOSE i \in 1..26 : UpperSeq[i] = c] ELSE c
ToUpperCase(s) == [i \in 1..Len(s) |-> UpperChar(s[i])]
ToLowerCase(s) == [i \in 1..Len(s) |-> LowerChar(s[i])]

\* s.replace(' ', ''): a string pattern replaces the FIRST occurrence only
ReplaceFirstSpace(s) ==
    IF \E i \in 1..Len(s) : s[i] = " "
    THEN LET k == CHOOSE i \in 1..Len(s) : s[i] = " " /\ \A j \in 1..(i-1) : s[j] # " "
         IN  SubSeq(s, 1, k-1) \o SubSeq(s, k+1, Len(s))
    ELSE s

\* haystack ILIKE '%needle%'
Contains(hay, needle) ==
    \E i \in 0..(Len(hay) - Len(needle)) :
        ToLowerCase(SubSeq(hay, i+1, i+Len(needle))) = ToLowerCase(needle)

DigitVal(c) == (CHOOSE i \in 1..10 : DigitSeq[i] = c) - 1

RECURSIVE NatToStr(_)
NatToStr(n) == IF n < 10 THEN <<DigitSeq[n+1]>>
               ELSE NatToStr(n \div 10) \o <<DigitSeq[(n % 10) + 1]>>

IntToStr(n) == IF n < 0 THEN <<"-">> \o NatToStr(0 - n) ELSE NatToStr(n)

RECURSIVE StrToNat(_)
StrToNat(s) == IF Len(s) = 0 THEN 0
               ELSE 10 * StrToNat(SubSeq(s, 1, Len(s)-1)) + DigitVal(s[Len(s)])

IsNatStr(s) == Len(s) > 0 /\ AllIn(s, Digit)
IsIntStr(s) == IsNatStr(s) \/ (Len(s) > 1 /\ s[1] = "-" /\ IsNatStr(Tail(s)))
StrToInt(s) == IF s[1] = "-" THEN 0 - StrToNat(Tail(s)) ELSE StrToNat(s)

(***************************************************************************)
(* JavaScript values (req.body fields, req.query parameters)               *)
(***************************************************************************)
Num(n) == [t |-> "num",   n |-> n, s |-> <<>>]
Str(s) == [t |-> "str",   n |-> 0, s |-> s]
Undef  == [t |-> "undef", n |-> 0, s |-> <<>>]
Null   == [t |-> "null",  n |-> 0, s |-> <<>>]
NaN    == [t |-> "nan",   n |-> 0, s |-> <<>>]

\* String(v)
ToStr(v) ==
    CASE v.t = "str"   -> v.s
      [] v.t = "num"   -> IntToStr(v.n)
      [] v.t = "undef" -> <<"u","n","d","e","f","i","n","e","d">>
      [] v.t = "null"  -> <<"n","u","l","l">>
      [] OTHER         -> <<"N","a","N">>

\* Number(v): a number value or NaN
ToNumber(v) ==
    CASE v.t = "num"  -> v
      [] v.t = "null" -> Num(0)
      [] v.t = "str"  -> IF Len(v.s) = 0 THEN Num(0)
                         ELSE IF IsIntStr(v.s) THEN Num(StrToInt(v.s)) ELSE NaN
      [] OTHER        -> NaN

\* the truthiness !v / v || d test
Truthy(v) ==
    CASE v.t = "num" -> v.n # 0
      [] v.t = "str" -> Len(v.s) > 0
      [] OTHER       -> FALSE

TypeofNumber(v) == v.t \in {"num", "nan"}

\* a + b
JsAdd(a, b) ==
    IF a.t = "str" \/ b.t = "str" THEN Str(ToStr(a) \o ToStr(b))
    ELSE IF ToNumber(a).t = "nan" \/ ToNumber(b).t = "nan" THEN NaN
    ELSE Num(ToNumber(a).n + ToNumber(b).n)

\* a - b
JsSub(a, b) ==
    IF ToNumber(a).t = "nan" \/ ToNumber(b).t = "nan" THEN NaN
    ELSE Num(ToNumber(a).n - ToNumber(b).n)

\* a * b
JsMul(a, b) ==
    IF ToNumber(a).t = "nan" \/ ToNumber(b).t = "nan" THEN NaN
    ELSE Num(ToNumber(a).n * ToNumber(b).n)

\* a <= 0, a < 0 (a comparison with NaN is false)
JsLeqZero(a) == ToNumber(a).t = "num" /\ ToNumber(a).n <= 0
JsLtZero(a)  == ToNumber(a).t = "num" /\ ToNumber(a).n < 0

\* isNaN(a)
JsIsNaN(a) == ToNumber(a).t = "nan"

\* a || d
JsOr(a, d) == IF Truthy(a) THEN a ELSE d

\* parseInt(v): the leading integer of String(v), else NaN
ParseInt(v) ==
    LET s   == ToStr(v)
        neg == Len(s) > 0 /\ s[1] = "-"
        body == IF neg THEN Tail(s) ELSE s
        k   == IF \E i \in 1..Len(body) : body[i] \notin Digit
               THEN (CHOOSE i \in 1..Len(body) :
                        body[i] \notin Digit /\ \A j \in 1..(i-1) : body[j] \in Digit) - 1
               ELSE Len(body)
    IN  IF k = 0 THEN NaN
        ELSE Num(IF neg THEN 0 - StrToNat(SubSeq(body, 1, k)) ELSE StrToNat(SubSeq(body, 1, k)))

\* Math.ceil(a / b) for numbers a, b with b > 0 (NaN otherwise in the model's range)
CeilDiv(a, b) ==
    LET x == ToNumber(a)
        y == ToNumber(b)
    IN  IF x.t = "nan" \/ y.t = "nan" \/ y.n <= 0 \/ x.n < 0 THEN NaN
        ELSE Num((x.n + y.n - 1) \div y.n)

(***************************************************************************)
(* Request bodies.  A body maps every field name either variant reads to   *)
(* a JS value; an absent key reads as undefined.                           *)
(***************************************************************************)
ServerRequired == <<"employee_id", "employee_name", "employee_email", "month_year",
                    "basic_salary", "da", "hra", "wage_allowance", "medical_allowance",
                    "pf", "esi", "tds", "lwp", "special_deduction">>
ServerNumeric == <<"da", "hra", "wage_allowance", "medical_allowance",
                   "pf", "esi", "tds", "lwp", "special_deduction">>

ATS0    == <<"A","T","S","0">>
ATS0000 == <<"A","T","S","0","0","0","0">>

\* /^ATS0[0-9]{3}$/ and /^ATS0\d{3}$/
MatchEmployeeId(s) ==
    Len(s) = 7 /\ SubSeq(s, 1, 4) = ATS0 /\ AllIn(SubSeq(s, 5, 7), Digit)

\* /^[a-zA-Z]+(?:\s[a-zA-Z]+)*$/
MatchNameServer(s) ==
    /\ Len(s) > 0
    /\ AllIn(s, Alpha \cup Whitespace)
    /\ s[1] \in Alpha /\ s[Len(s)] \in Alpha
    /\ \A i \in 1..(Len(s)-1) : ~(s[i] \in Whitespace /\ s[i+1] \in Whitespace)

TldsServer == { <<"c","o","m">>, <<"i","n">>, <<"o","r","g">>, <<"c","o",".","i","n">> }
LocalChars  == Alpha \cup Digit \cup {".", "_", "%", "+", "-"}
DomainChars == Alpha \cup Digit \cup {".", "-"}

\* /^[a-zA-Z0-9._%+-]+@[a-zA-Z0-9.-]+\.(com|in|org|co\.in)$/i
MatchEmailServer(s) ==
    \E i \in 2..Len(s) : \E j \in (i+2)..Len(s) :
        /\ s[i] = "@" /\ s[j] = "."
        /\ AllIn(SubSeq(s, 1, i-1), LocalChars)
        /\ AllIn(SubSeq(s, i+1, j-1), DomainChars)
        /\ ToLowerCase(SubSeq(s, j+1, Len(s))) \in TldsServer

\* /^[^\s@]+@[^\s@]+\.[^\s@]+$/
MatchEmailPart(s) ==
    LET plain(x) == \A k \in 1..Len(x) : x[k] \notin Whitespace \cup {"@"}
    IN  \E i \in 2..Len(s) : \E j \in (i+2)..(Len(s)-1) :
            /\ s[i] = "@" /\ s[j] = "."
            /\ plain(SubSeq(s, 1, i-1))
            /\ plain(SubSeq(s, i+1, j-1))
            /\ plain(SubSeq(s, j+1, Len(s)))

\* /^[A-Za-z]+\s[0-9]{4}$/ and /^[A-Za-z]+\s\d{4}$/
MatchMonthYear(s) ==
    /\ Len(s) >= 6
    /\ AllIn(SubSeq(s, 1, Len(s)-5), Alpha)
    /\ s[Len(s)-4] \in Whitespace
    /\ AllIn(SubSeq(s, Len(s)-3, Len(s)), Digit)

\* the position of the first element of a sequence of booleans that is TRUE, 0 if none
FirstTrue(flags) ==
    IF \E i \in 1..Len(flags) : flags[i]
    THEN CHOOSE i \in 1..Len(flags) : flags[i] /\ \A j \in 1..(i-1) : ~flags[j]
    ELSE 0

\* server.js validatePayslipData: the field of the first failing check (fail fast),
\* <<>> when next() is called
validatePayslipData(body) ==
    LET missing == [i \in 1..Len(ServerRequired) |->
                        body[ServerRequired[i]].t \in {"undef", "null"}]
        badnum  == [i \in 1..Len(ServerNumeric) |->
                        ~TypeofNumber(body[ServerNumeric[i]])
                        \/ JsLtZero(body[ServerNumeric[i]])]
    IN  IF FirstTrue(missing) # 0 THEN <<ServerRequired[FirstTrue(missing)]>>
        ELSE IF ~MatchEmployeeId(ToStr(body.employee_id))
                \/ body.employee_id = Str(ATS0000) THEN <<"employee_id">>
        ELSE IF ~MatchNameServer(ToStr(body.employee_name)) THEN <<"employee_name">>
        ELSE IF ~MatchEmailServer(ToStr(body.employee_email)) THEN <<"employee_email">>
        ELSE IF ~MatchMonthYear(ToStr(body.month_year)) THEN <<"month_year">>
        ELSE IF ~TypeofNumber(body.basic_salary) \/ JsLeqZero(body.basic_salary)
             THEN <<"basic_salary">>
        ELSE IF FirstTrue(badnum) # 0 THEN <<ServerNumeric[FirstTrue(badnum)]>>
        ELSE <<>>

\* v.length < 3 (undefined < 3 is false for a value without length)
LengthBelow3(v) == v.t = "str" /\ Len(v.s) < 3

\* part_000 validatePayslip: the fields of the collected errors, in order
validatePayslip(body) ==
    (IF ~Truthy(body.employee_id) \/ ~MatchEmployeeId(ToStr(body.employee_id))
        THEN <<"employee_id">> ELSE <<>>)
    \o (IF ~Truthy(body.employee_name) \/ LengthBelow3(body.employee_name)
        THEN <<"employee_name">> ELSE <<>>)
    \o (IF ~Truthy(body.employee_email) \/ ~MatchEmailPart(ToStr(body.employee_email))
        THEN <<"employee_email">> ELSE <<>>)
    \o (IF ~Truthy(body.month_year) \/ ~MatchMonthYear(ToStr(body.month_year))
        THEN <<"month_year">> ELSE <<>>)
    \o (IF ~Truthy(body.basic_salary) \/ JsIsNaN(body.basic_salary)
           \/ JsLeqZero(body.basic_salary)
        THEN <<"basic_salary">> ELSE <<>>)

\* server.js: net_salary of the create handler
netSalaryServer(b) ==
    JsSub(JsAdd(JsAdd(JsAdd(JsAdd(b.basic_salary, b.da), b.hra), b.wage_allowance),
                b.medical_allowance),
          JsAdd(JsAdd(JsAdd(JsAdd(b.pf, b.esi), b.tds), b.lwp), b.special_deduction))

\* part_000 calculateNetSalary
calculateNetSalary(data) ==
    JsSub(JsAdd(JsAdd(data.basic_salary, data.hra), data.other_allowance),
          JsAdd(JsAdd(JsAdd(JsAdd(data.professional_tax, data.tds), data.provident_fund),
                      data.lwp),
                JsOr(data.other_deduction, Num(0))))

\* generatePayslipId (part_000) and the same two lines of server.js; rnd is
\* Math.floor(100 + Math.random() * 900)
generatePayslipId(monthYear, rnd) ==
    <<"P","S","L","-">> \o ToUpperCase(ReplaceFirstSpace(monthYear)) \o <<"-">> \o NatToStr(rnd)

(***************************************************************************)
(* The payslips table (CREATE TABLE of initializeDatabase)                 *)
(***************************************************************************)
ServerColumns == <<"payslip_id", "employee_id", "employee_name", "employee_email",
                   "month_year", "basic_salary", "da", "hra", "wage_allowance",
                   "medical_allowance", "pf", "esi", "tds", "lwp", "special_deduction",
                   "net_salary", "status">>
PartColumns == <<"payslip_id", "employee_id", "employee_name", "employee_email",
                 "month_year", "designation", "office_location", "employment_type",
                 "date_of_joining", "working_days", "bank_name", "pan_no",
                 "bank_account_no", "pf_no", "uan_no", "esic_no", "basic_salary", "hra",
                 "other_allowance", "professional_tax", "tds", "provident_fund", "lwp",
                 "other_deduction", "net_salary", "status">>

DecimalColumns == {"basic_salary", "da", "hra", "wage_allowance", "medical_allowance",
                   "pf", "esi", "tds", "lwp", "special_deduction", "net_salary",
                   "other_allowance", "professional_tax", "provident_fund",
                   "other_deduction"}

ColumnType(c) ==
    CASE c = "payslip_id"      -> "varchar"
      [] c \in DecimalColumns  -> "decimal"
      [] c = "date_of_joining" -> "date"
      [] c = "working_days"    -> "integer"
      [] OTHER                 -> "text"

\* VARCHAR(20)
PayslipIdMax == 20
\* DECIMAL(10,2): fewer than 10 - 2 = 8 digits before the point
DecimalDigits == 8

RECURSIVE Pow10(_)
Pow10(k) == IF k = 0 THEN 1 ELSE 10 * Pow10(k - 1)

Abs(n) == IF n < 0 THEN 0 - n ELSE n

\* YYYY-MM-DD
IsDateStr(s) ==
    /\ Len(s) = 10 /\ s[5] = "-" /\ s[8] = "-"
    /\ AllIn(SubSeq(s, 1, 4) \o SubSeq(s, 6, 7) \o SubSeq(s, 9, 10), Digit)

\* whether the store accepts parameter v for column c (node-pg sends undefined as NULL,
\* a number as its text); other_deduction alone is nullable
ColumnAccepts(c, v) ==
    IF v.t \in {"undef", "null"} THEN c = "other_deduction"
    ELSE CASE ColumnType(c) = "varchar" -> Len(ToStr(v)) <= PayslipIdMax
           [] ColumnType(c) = "decimal" ->
                \/ v.t = "nan"
                \/ /\ v.t = "num" \/ IsIntStr(v.s)
                   /\ Abs(ToNumber(v).n) < Pow10(DecimalDigits)
           [] ColumnType(c) = "date"    -> v.t = "str" /\ IsDateStr(v.s)
           [] ColumnType(c) = "integer" -> v.t = "num" \/ (v.t = "str" /\ IsIntStr(v.s))
           [] OTHER -> TRUE

\* the value the store keeps for parameter v in column c
ColumnStores(c, v) ==
    IF v.t \in {"undef", "null"} THEN Null
    ELSE IF ColumnType(c) \in {"decimal", "integer"} THEN ToNumber(v)
    ELSE Str(ToStr(v))

Generated == <<"G","e","n","e","r","a","t","e","d">>

\* the parameter list of the INSERT of server.js
ServerInsertParams(b, id, net) ==
    [c \in {ServerColumns[i] : i \in 1..Len(ServerColumns)} |->
        CASE c = "payslip_id" -> Str(id)
          [] c = "net_salary" -> net
          [] c = "status"     -> Str(Generated)
          [] OTHER            -> b[c]]

\* the parameter list of the INSERT of part_000 (status takes the column default)
PartInsertParams(b, id, net) ==
    [c \in {PartColumns[i] : i \in 1..Len(PartColumns)} |->
        CASE c = "payslip_id"      -> Str(id)
          [] c = "net_salary"      -> net
          [] c = "status"          -> Str(Generated)
          [] c = "other_deduction" -> JsOr(b.other_deduction, Num(0))
          [] OTHER                 -> b[c]]

StoredRow(params) == [c \in DOMAIN params |-> ColumnStores(c, params[c])]

KeyOf(row) == <<row.employee_id, row.month_year>>

\* the INSERT against a table created without CONSTRAINT unique_employee_month_year
InsertOutcomeNoUnique(params, rows) ==
    IF \E c \in DOMAIN params : ~ColumnAccepts(c, params[c]) THEN "data"
    ELSE IF \E x \in rows : x.payslip_id = StoredRow(params).payslip_id THEN "primary_key"
    ELSE "ok"

\* the INSERT against a table created without payslip_id as PRIMARY KEY
InsertOutcomeNoPrimaryKey(params, rows) ==
    IF \E c \in DOMAIN params : ~ColumnAccepts(c, params[c]) THEN "data"
    ELSE IF \E x \in rows : KeyOf(x) = KeyOf(StoredRow(params)) THEN "unique"
    ELSE "ok"

\* INSERT INTO payslips of the row built from params, against the rows the statement
\* sees: "ok", or the reason the store rejects it
InsertOutcome(params, rows) ==
    LET row == StoredRow(params)
    IN  IF \E c \in DOMAIN params : ~ColumnAccepts(c, params[c]) THEN "data"
        ELSE IF \E x \in rows : x.payslip_id = row.payslip_id THEN "primary_key"
        ELSE IF \E x \in rows : KeyOf(x) = KeyOf(row) THEN "unique"
        ELSE "ok"

\* SELECT 1 FROM payslips WHERE employee_id = $1 AND month_year = $2 (rowCount > 0)
ExistsPayslip(rows, employee_id, month_year) ==
    \E x \in rows : x.employee_id = Str(ToStr(employee_id))
                    /\ x.month_year = Str(ToStr(month_year))

MonthNames == << <<"J","A","N","U","A","R","Y">>, <<"F","E","B","R","U","A","R","Y">>,
                 <<"M","A","R","C","H">>, <<"A","P","R","I","L">>, <<"M","A","Y">>,
                 <<"J","U","N","E">>, <<"J","U","L","Y">>, <<"A","U","G","U","S","T">>,
                 <<"S","E","P","T","E","M","B","E","R">>, <<"O","C","T","O","B","E","R">>,
                 <<"N","O","V","E","M","B","E","R">>, <<"D","E","C","E","M","B","E","R">> >>

\* TO_DATE(text, 'Month YYYY'): ok is FALSE when the store raises (no such month name)
ToDate(s) ==
    LET name == ToUpperCase(SubSeq(s, 1, Len(s) - 5))
        year == StrToNat(SubSeq(s, Len(s) - 3, Len(s)))
    IN  IF Len(s) >= 6 /\ \E i \in 1..12 : MonthNames[i] = name
        THEN [ok |-> TRUE, month |-> CHOOSE i \in 1..12 : MonthNames[i] = name,
              year |-> year]
        ELSE [ok |-> FALSE, month |-> 0, year |-> 0]

DateOrd(d) == d.year * 12 + d.month

(***************************************************************************)
(* Queries of the read endpoints                                           *)
(***************************************************************************)
\* all listings of the finite set S in which key never decreases: the orders an
\* ORDER BY may return (rows with equal keys come in any order)
RECURSIVE Orders(_, _)
Orders(S, key) ==
    IF S = {} THEN {<<>>}
    ELSE UNION { { <<x>> \o rest : rest \in Orders(S \ {x}, key) } :
                 x \in {m \in S : \A y \in S : key[m] <= key[y]} }

\* the numeric part of a stored employee_id (ATS0ddd): its place in text order
EmployeeOrd(row) == StrToNat(SubSeq(row.employee_id.s, 5, 7))

\* ORDER BY TO_DATE(month_year, 'Month YYYY') DESC, employee_id
HistoryKey(S) ==
    [x \in S |-> 1000 * (0 - DateOrd(ToDate(x.month_year.s))) + EmployeeOrd(x)]

\* ORDER BY TO_DATE(month_year, 'Month YYYY') DESC
PeriodKey(S) == [x \in S |-> 0 - DateOrd(ToDate(x.month_year.s))]

\* const { page = 1, limit = 10 } = req.query
PageOf(q)  == IF q.page.t = "undef" THEN Num(1) ELSE q.page
LimitOf(q) == IF q.limit.t = "undef" THEN Num(10) ELSE q.limit

\* const offset = (page - 1) * limit
HistoryOffset(q) == JsMul(JsSub(PageOf(q), Num(1)), LimitOf(q))

\* the rows that pass the search condition (employee_id ILIKE or employee_name ILIKE)
SearchFilter(rows, q) ==
    IF Truthy(q.search)
    THEN {x \in rows : \/ Contains(x.employee_id.s, ToStr(q.search))
                       \/ Contains(x.employee_name.s, ToStr(q.search))}
    ELSE rows

\* the WHERE clause that getPayslips and getPayslipCount build
HistoryFilter(rows, q) ==
    {x \in SearchFilter(rows, q) :
        /\ Truthy(q.month) => ToDate(x.month_year.s).month = ParseInt(q.month).n
        /\ Truthy(q.year)  => ToDate(x.month_year.s).year = ParseInt(q.year).n}

\* the store rejects the filter: a parameter that is no integer, or TO_DATE raised on
\* a row the date conditions were evaluated for
HistoryFilterFails(rows, q) ==
    \/ Truthy(q.month) /\ ParseInt(q.month).t = "nan"
    \/ Truthy(q.year) /\ ParseInt(q.year).t = "nan"
    \/ /\ Truthy(q.month) \/ Truthy(q.year)
       /\ \E x \in SearchFilter(rows, q) : ~ToDate(x.month_year.s).ok

\* the query of getPayslips fails: the filter, ORDER BY TO_DATE on a selected row, or
\* a LIMIT / OFFSET that is no integer or is negative
GetPayslipsFails(rows, q) ==
    \/ HistoryFilterFails(rows, q)
    \/ \E x \in HistoryFilter(rows, q) : ~ToDate(x.month_year.s).ok
    \/ ParseInt(LimitOf(q)).t = "nan" \/ ParseInt(HistoryOffset(q)).t = "nan"
    \/ ParseInt(LimitOf(q)).n < 0 \/ ParseInt(HistoryOffset(q)).n < 0

Min(a, b) == IF a < b THEN a ELSE b

\* LIMIT lim OFFSET off of an ordered result
LimitOffset(ord, lim, off) == SubSeq(ord, off + 1, Min(off + lim, Len(ord)))

\* the results getPayslips may return: result.rows
GetPayslipsResults(rows, q) ==
    LET S == HistoryFilter(rows, q)
    IN  { LimitOffset(ord, ParseInt(LimitOf(q)).n, ParseInt(HistoryOffset(q)).n) :
            ord \in Orders(S, HistoryKey(S)) }

\* getPayslipCount: result.rows[0].count, which the driver returns as a string
GetPayslipCountResult(rows, q) == Str(NatToStr(Cardinality(HistoryFilter(rows, q))))

\* the pagination object of the history response
Pagination(q, count) ==
    [total |-> ParseInt(count), totalPages |-> CeilDiv(count, LimitOf(q)),
     currentPage |-> ParseInt(PageOf(q)), limit |-> ParseInt(LimitOf(q))]

\* SELECT * FROM payslips WHERE payslip_id = $1
PayslipsById(rows, id) == {x \in rows : x.payslip_id = Str(ToStr(id))}

\* server.js GET /api/payslips: the parameter checks made before any query
\* ("" when they pass, else the parameter the 400 response is about)
SelfParamError(q) ==
    IF ~Truthy(q.employee_id) \/ ~Truthy(q.employee_email) THEN "required"
    ELSE IF ~MatchEmployeeId(ToStr(q.employee_id)) \/ q.employee_id = Str(ATS0000)
         THEN "employee_id"
    ELSE IF ~MatchEmailServer(ToStr(q.employee_email)) THEN "employee_email"
    ELSE ""

\* an authorization query that leaves the e-mail address out
SelfAuthorizedIdOnly(rows, q) ==
    \E x \in rows : x.employee_id = Str(ToStr(q.employee_id))

\* SELECT 1 FROM payslips WHERE employee_id = $1 AND employee_email = $2 LIMIT 1
SelfAuthorized(rows, q) ==
    \E x \in rows : x.employee_id = Str(ToStr(q.employee_id))
                    /\ x.employee_email = Str(ToStr(q.employee_email))

\* the checks of start_month and end_month made after the authorization query
SelfRangeError(q) ==
    IF Truthy(q.start_month) /\ ~MatchMonthYear(ToStr(q.start_month)) THEN "start_month"
    ELSE IF Truthy(q.end_month) /\ ~MatchMonthYear(ToStr(q.end_month)) THEN "end_month"
    ELSE ""

\* the rows of the employee, before the period range is applied
SelfRows(rows, q) == {x \in rows : x.employee_id = Str(ToStr(q.employee_id))}

\* the listing query fails: TO_DATE raised on a bound or on a row of the employee
SelfListFails(rows, q) ==
    \/ Truthy(q.start_month) /\ ~ToDate(ToStr(q.start_month)).ok
    \/ Truthy(q.end_month) /\ ~ToDate(ToStr(q.end_month)).ok
    \/ \E x \in SelfRows(rows, q) : ~ToDate(x.month_year.s).ok

\* the results the listing query may return
SelfListResults(rows, q) ==
    LET S == {x \in SelfRows(rows, q) :
                /\ Truthy(q.start_month) =>
                     DateOrd(ToDate(x.month_year.s)) >= DateOrd(ToDate(ToStr(q.start_month)))
                /\ Truthy(q.end_month) =>
                     DateOrd(ToDate(x.month_year.s)) <= DateOrd(ToDate(ToStr(q.end_month)))}
    IN  Orders(S, PeriodKey(S))

(***************************************************************************)
(* Bounds of the model and the inputs drawn from them                      *)
(***************************************************************************)
\* request handlers in flight at once
NumSlots == 2
\* distinct values of the random suffix Math.floor(100 + Math.random() * 900)
NumSuffixes == 2
\* store failures (a broken connection) injected in one behaviour
MaxFaults == 1
\* requests received in one behaviour of the concurrent-create specification
MaxRequests == 2

Slots    == 1..NumSlots
Clients  == 1..NumSlots
Suffixes == 100..(100 + NumSuffixes - 1)

AllFields == {"employee_id", "employee_name", "employee_email", "month_year",
              "designation", "office_location", "employment_type", "date_of_joining",
              "working_days", "bank_name", "pan_no", "bank_account_no", "pf_no",
              "uan_no", "esic_no", "basic_salary", "da", "hra", "wage_allowance",
              "medical_allowance", "other_allowance", "pf", "esi", "tds", "lwp",
              "special_deduction", "professional_tax", "provident_fund",
              "other_deduction", "net_salary"}

NoBody == [f \in AllFields |-> Undef]

\* req.query / req.params with no parameter given
NoQueryFields ==
    [search |-> Undef, month |-> Undef, year |-> Undef, page |-> Undef,
     limit |-> Undef, id |-> Undef, employee_id |-> Undef,
     employee_email |-> Undef, start_month |-> Undef, end_month |-> Undef]

Emp1 == <<"A","T","S","0","0","0","1">>
Emp2 == <<"A","T","S","0","0","0","2">>
May2024  == <<"M","a","y"," ","2","0","2","4">>
June2024 == <<"J","u","n","e"," ","2","0","2","4">>
Sept2024 == <<"S","e","p","t","e","m","b","e","r"," ","2","0","2","4">>
MailA == <<"a","@","b",".","i","n">>
MailB == <<"b","@","b",".","i","n">>

\* a body that satisfies every rule of both validators and every column
BaseBody ==
    [f \in AllFields |->
        CASE f = "employee_id"     -> Str(Emp1)
          [] f = "employee_name"   -> Str(<<"A","n","n"," ","L","e","e">>)
          [] f = "employee_email"  -> Str(MailA)
          [] f = "month_year"      -> Str(May2024)
          [] f = "designation"     -> Str(<<"D","e","v">>)
          [] f = "office_location" -> Str(<<"P","u","n","e">>)
          [] f = "employment_type" -> Str(<<"F","u","l","l">>)
          [] f = "date_of_joining" -> Str(<<"2","0","2","0","-","0","1","-","0","1">>)
          [] f = "working_days"    -> Num(22)
          [] f = "bank_name"       -> Str(<<"S","B","I">>)
          [] f = "pan_no"          -> Str(<<"A","B","C","D","E","1","2","3","4","F">>)
          [] f = "bank_account_no" -> Str(<<"1","2","3","4","5","6","7","8","9","0">>)
          [] f = "pf_no"           -> Str(<<"P","F","1","2","3","4","5","6","7","8","9","0">>)
          [] f = "uan_no"          -> Str(<<"1","2","3","4","5","6","7","8","9","0","1","2">>)
          [] f = "esic_no"         -> Str(<<"E","S","1","2","3","4","5","6","7","8">>)
          [] f = "basic_salary"    -> Num(50)
          [] f = "da"              -> Num(4)
          [] f = "hra"             -> Num(7)
          [] f = "wage_allowance"  -> Num(3)
          [] f = "medical_allowance" -> Num(2)
          [] f = "other_allowance" -> Num(5)
          [] f = "pf"              -> Num(6)
          [] f = "esi"             -> Num(1)
          [] f = "tds"             -> Num(2)
          [] f = "lwp"             -> Num(0)
          [] f = "special_deduction" -> Num(1)
          [] f = "professional_tax"  -> Num(2)
          [] f = "provident_fund"  -> Num(6)
          [] f = "other_deduction" -> Num(1)
          [] OTHER                 -> Undef]

With(b, f, v) == [b EXCEPT ![f] = v]

\* bodies of the concurrent-create specification: two employees, two pay periods
RaceBodies ==
    { With(With(BaseBody, "employee_id", Str(e)), "month_year", Str(m)) :
        e \in {Emp1, Emp2}, m \in {May2024, Sept2024} }

\* requests received in one behaviour of the validation specification
MaxRequestsValidate == 1

ServerMoney == {"da", "hra", "wage_allowance", "medical_allowance",
                "pf", "esi", "tds", "lwp", "special_deduction"}
PartMoney   == {"hra", "other_allowance", "professional_tax", "tds",
                "provident_fund", "lwp", "other_deduction"}

\* single-field changes of BaseBody: <<field, value>>
Deviations ==
    { <<"employee_id", Str(ATS0000)>>,
      <<"employee_id", Str(<<"A","T","S","0","0","1">>)>>,
      <<"employee_id", Undef>>,
      <<"employee_name", Str(<<"A","l">>)>>,
      <<"employee_name", Str(<<"A","n","n","1">>)>>,
      <<"employee_email", Str(<<"a","@","b">>)>>,
      <<"employee_email", Str(<<"a","@","b",".","n","e","t">>)>>,
      <<"month_year", Str(<<"M","a","y","2","0","2","4">>)>>,
      <<"month_year", Str(<<"M","a","y"," ","2","4">>)>>,
      <<"month_year", Str(Sept2024)>>,
      <<"basic_salary", Num(0)>>,
      <<"basic_salary", Num(0 - 5)>>,
      <<"basic_salary", Str(<<"5","0">>)>>,
      <<"basic_salary", Str(<<"a","b","c">>)>>,
      <<"basic_salary", Undef>>,
      <<"net_salary", Num(999)>>,
      <<"designation", Undef>>,
      <<"date_of_joining", Str(<<"s","o","o","n">>)>> }
    \cup { <<f, v>> : f \in ServerMoney \cup PartMoney,
                      v \in {Num(0 - 1), Str(<<"7">>), Str(<<"x">>), Undef} }

\* bodies of the validation specification: BaseBody and its single-field changes
ValidateBodies == {BaseBody} \cup { With(BaseBody, d[1], d[2]) : d \in Deviations }

\* requests received in one behaviour of the lookup specification
MaxRequestsLookup == 3
\* requests received in one behaviour of the history and self-service specifications
MaxRequestsRead == 1
\* rows in the table when a behaviour of those specifications starts
MaxRows == 3

MAY2024 == <<"M","A","Y"," ","2","0","2","4">>
Mai2024 == <<"M","a","i"," ","2","0","2","4">>
BobRay  == <<"B","o","b"," ","R","a","y">>

BodyOf(e, name, mail, m) ==
    With(With(With(With(BaseBody, "employee_id", Str(e)), "employee_name", Str(name)),
              "employee_email", Str(mail)), "month_year", Str(m))

\* bodies of the lookup specification: two employees in one pay period
LookupBodies == { With(BaseBody, "employee_id", Str(e)) : e \in {Emp1, Emp2} }

\* identifiers looked up: the ones a create of LookupBodies can generate, and one
\* no create generates
LookupIds == { Str(generatePayslipId(May2024, s)) : s \in Suffixes }
             \cup { Str(<<"P","S","L","-","N","O","N","E">>) }

\* bodies behind the rows of the history specification: two employees, two periods,
\* one period also in upper case (the same date), one with no calendar month
HistoryBodies ==
    { BodyOf(Emp1, BaseBody.employee_name.s, MailA, May2024),
      BodyOf(Emp1, BaseBody.employee_name.s, MailA, MAY2024),
      BodyOf(Emp1, BaseBody.employee_name.s, MailA, June2024),
      BodyOf(Emp2, BobRay, MailB, May2024),
      BodyOf(Emp2, BobRay, MailB, Mai2024) }

\* bodies behind the rows of the self-service specification: one employee stored
\* with two e-mail addresses, another with one
SelfBodies ==
    { BodyOf(Emp1, BaseBody.employee_name.s, MailA, May2024),
      BodyOf(Emp1, BaseBody.employee_name.s, MailB, June2024),
      BodyOf(Emp2, BobRay, MailB, May2024),
      BodyOf(Emp2, BobRay, MailB, Mai2024) }

\* the INSERT parameter lists that accepted creates of the bodies build in variant v
CreateParams(v, bodies) ==
    IF v = "server"
    THEN { ServerInsertParams(b, generatePayslipId(ToStr(b.month_year), s),
                              netSalaryServer(b)) :
             b \in {x \in bodies : validatePayslipData(x) = <<>>}, s \in Suffixes }
    ELSE { PartInsertParams(b, generatePayslipId(ToStr(b.month_year), s),
                            calculateNetSalary(b)) :
             b \in {x \in bodies : validatePayslip(x) = <<>>}, s \in Suffixes }

\* the tables that at most k successful creates, one after the other, leave behind
RECURSIVE StoresAfter(_, _)
StoresAfter(ps, k) ==
    IF k = 0 THEN {{}}
    ELSE LET prev == StoresAfter(ps, k - 1)
         IN  prev \cup UNION { { s \cup {StoredRow(p)} :
                                     p \in {x \in ps : InsertOutcome(x, s) = "ok"} } :
                                 s \in prev }

Q(f, v) == [NoQueryFields EXCEPT ![f] = v]

(***************************************************************************)
(* State                                                                   *)
(***************************************************************************)
VARIABLES
    variant,    \* which server runs: "server" (server.js) or "part000" (part_000)
    payslips,   \* the committed rows of the payslips table
    clients,    \* part_000: the pool's clients (checked out, transaction, pending rows)
    req,        \* the request handler of each slot: position, inputs, response
    faults,     \* store failures injected so far
    started,    \* requests received so far
    boot        \* the start of the process: its position, whether the HTTP server
                \* listens, and what it accepted before the start had completed

vars == <<variant, payslips, clients, req, faults, started, boot>>

NoQuery == NoQueryFields

NoPagination == [total |-> Undef, totalPages |-> Undef, currentPage |-> Undef,
                 limit |-> Undef]

\* a slot with no request.  status 0: no response sent.  error: the kind of the error
\* body.  acquired/releases count pool.connect() results and client.release() calls.
\* outcome is the store's answer to the INSERT.  alone, existed, faulted, seenData
\* and seenCount record facts of the run: no other handler overlapped, the (employee, period) pair was stored
\* when the request arrived, a store failure hit it, the rows its queries saw.
IdleReq ==
    [kind |-> "idle", pc |-> "idle", body |-> NoBody, query |-> NoQuery,
     params |-> <<>>, client |-> 0, status |-> 0, error |-> "", errors |-> <<>>,
     data |-> <<>>, pagination |-> NoPagination, rows |-> <<>>, count |-> Undef,
     dataDone |-> FALSE, countDone |-> FALSE,
     outcome |-> "", acquired |-> 0, releases |-> 0,
     alone |-> TRUE, existed |-> FALSE, faulted |-> FALSE,
     seenData |-> {}, seenCount |-> {}]

FreshClient == [busy |-> FALSE, txn |-> "idle", pending |-> {}, broken |-> FALSE]

\* the handler of a slot is running: it has neither responded nor been rejected
Active(q) == q.pc \notin {"idle", "done", "crashed"}

\* a store failure may be injected while the budget lasts
FaultChoices == IF faults < MaxFaults THEN {TRUE, FALSE} ELSE {FALSE}

\* the process after a start that completed: the schema exists, the server listens
Booted == [pc |-> "ready", listening |-> TRUE, accepted |-> FALSE, early |-> FALSE]

\* slot r, whose previous handler (if any) has ended, receives a request whose handler
\* state is q; the HTTP server accepts it only while it listens
Arrive(r, q) ==
    /\ ~Active(req[r])
    /\ req' = [s \in Slots |->
                 IF s = r
                 THEN [q EXCEPT !.alone = \A o \in Slots \ {r} : ~Active(req[o])]
                 ELSE IF Active(req[s]) THEN [req[s] EXCEPT !.alone = FALSE]
                 ELSE req[s]]
    /\ started' = started + 1
    /\ boot.listening
    /\ boot' = [boot EXCEPT !.accepted = TRUE, !.early = @ \/ boot.pc # "ready"]

\* res.status(code).json(...) and the handler ends
Respond(q, code, kind) == [q EXCEPT !.pc = "done", !.status = code, !.error = kind]

\* the connection of client c breaks: the server drops its transaction
Break(cl) == [cl EXCEPT !.broken = TRUE, !.txn = "idle", !.pending = {}]

\* client.release(): the pool keeps the client as it is, or replaces a broken one
Release(cl) == IF cl.broken THEN FreshClient ELSE [cl EXCEPT !.busy = FALSE]

\* a handler that releases nowhere
FinallyMissing(cl) == cl

\* finally { client.release() } of the part_000 create handler
Finally(cl) == Release(cl)

Init ==
    /\ variant \in {"server", "part000"}
    /\ payslips = {}
    /\ clients = [c \in Clients |-> FreshClient]
    /\ req = [r \in Slots |-> IdleReq]
    /\ faults = 0
    /\ started = 0
    /\ boot = Booted

(***************************************************************************)
(* POST /api/payslips of server.js                                         *)
(***************************************************************************)
\* the request arrives: validatePayslipData, then the handler up to its first await
ServerPostPayslips(r, b, rnd) ==
    /\ variant = "server"
    /\ LET errs == validatePayslipData(b)
           q    == [IdleReq EXCEPT !.kind = "create", !.body = b,
                       !.existed = ExistsPayslip(payslips, b.employee_id, b.month_year)]
       IN  Arrive(r,
              IF errs # <<>>
              THEN [Respond(q, 400, "validation") EXCEPT !.errors = errs]
              ELSE [q EXCEPT !.pc = "check",
                       !.params = <<ServerInsertParams(b,
                                       generatePayslipId(ToStr(b.month_year), rnd),
                                       netSalaryServer(b))>>])
    /\ UNCHANGED <<variant, payslips, clients, faults>>

\* the duplicate check SELECT returns
ServerCheck(r) ==
    /\ variant = "server" /\ req[r].kind = "create" /\ req[r].pc = "check"
    /\ \E fail \in FaultChoices :
         /\ faults' = IF fail THEN faults + 1 ELSE faults
         /\ req' = [req EXCEPT ![r] =
               IF fail THEN [Respond(@, 500, "internal") EXCEPT !.faulted = TRUE]
               ELSE IF ExistsPayslip(payslips, @.body.employee_id, @.body.month_year)
                    THEN Respond(@, 400, "duplicate")
                    ELSE [@ EXCEPT !.pc = "insert"]]
    /\ UNCHANGED <<boot, variant, payslips, clients, started>>

\* the INSERT returns
ServerInsert(r) ==
    /\ variant = "server" /\ req[r].kind = "create" /\ req[r].pc = "insert"
    /\ \E fail \in FaultChoices :
         LET p  == req[r].params[1]
             ok == ~fail /\ InsertOutcome(p, payslips) = "ok"
         IN  /\ faults' = IF fail THEN faults + 1 ELSE faults
             /\ payslips' = IF ok THEN payslips \cup {StoredRow(p)} ELSE payslips
             /\ req' = [req EXCEPT ![r] =
                   IF ok THEN [Respond(@, 201, "") EXCEPT !.data = <<StoredRow(p)>>,
                                                          !.outcome = "ok"]
                   ELSE [Respond(@, 500, "internal") EXCEPT !.faulted = fail,
                            !.outcome = IF fail THEN "" ELSE InsertOutcome(p, payslips)]]
    /\ UNCHANGED <<boot, variant, clients, started>>

(***************************************************************************)
(* router.post('/payslips') of part_000                                    *)
(***************************************************************************)
\* the request arrives: validatePayslip, then the handler awaits pool.connect()
RouterPostPayslips(r, b) ==
    /\ variant = "part000"
    /\ LET errs == validatePayslip(b)
           q    == [IdleReq EXCEPT !.kind = "create", !.body = b,
                       !.existed = ExistsPayslip(payslips, b.employee_id, b.month_year)]
       IN  Arrive(r,
              IF errs # <<>>
              THEN [Respond(q, 400, "validation") EXCEPT !.errors = errs]
              ELSE [q EXCEPT !.pc = "connect"])
    /\ UNCHANGED <<variant, payslips, clients, faults>>

\* pool.connect() settles (outside the try block); on success the handler computes
\* netSalary and payslipId and sends BEGIN
PoolConnect(r, rnd) ==
    /\ variant = "part000" /\ req[r].pc = "connect"
    /\ \E fail \in FaultChoices :
         IF fail
         THEN /\ faults' = faults + 1
              /\ req' = [req EXCEPT ![r] = [@ EXCEPT !.pc = "crashed", !.faulted = TRUE]]
              /\ UNCHANGED clients
         ELSE /\ \E c \in Clients :
                   /\ ~clients[c].busy
                   /\ clients' = [clients EXCEPT ![c].busy = TRUE]
                   /\ req' = [req EXCEPT ![r] = [@ EXCEPT
                         !.pc = "begin", !.client = c, !.acquired = @ + 1,
                         !.params = <<PartInsertParams(req[r].body,
                                        generatePayslipId(ToStr(req[r].body.month_year), rnd),
                                        calculateNetSalary(req[r].body))>>]]
              /\ UNCHANGED faults
    /\ UNCHANGED <<boot, variant, payslips, started>>

\* BEGIN returns
ClientBegin(r) ==
    /\ variant = "part000" /\ req[r].pc = "begin"
    /\ LET c == req[r].client
       IN  \E fail \in FaultChoices :
             /\ faults' = IF fail THEN faults + 1 ELSE faults
             /\ clients' = [clients EXCEPT ![c] =
                   IF fail THEN Break(@)
                   ELSE IF @.txn = "idle" THEN [@ EXCEPT !.txn = "open"] ELSE @]
             /\ req' = [req EXCEPT ![r] =
                   IF fail THEN [@ EXCEPT !.pc = "catch", !.faulted = TRUE]
                   ELSE IF clients[c].txn = "aborted" THEN [@ EXCEPT !.pc = "catch"]
                   ELSE [@ EXCEPT !.pc = "exists"]]
    /\ UNCHANGED <<boot, variant, payslips, started>>

\* the existence SELECT returns; a hit answers 409 and leaves through finally
ClientExists(r) ==
    /\ variant = "part000" /\ req[r].pc = "exists"
    /\ LET c   == req[r].client
           hit == ExistsPayslip(payslips \cup clients[c].pending,
                                req[r].body.employee_id, req[r].body.month_year)
       IN  \E fail \in FaultChoices :
             /\ faults' = IF fail THEN faults + 1 ELSE faults
             /\ clients' = [clients EXCEPT ![c] =
                   IF fail THEN Break(@) ELSE IF hit THEN Finally(@) ELSE @]
             /\ req' = [req EXCEPT ![r] =
                   IF fail THEN [@ EXCEPT !.pc = "catch", !.faulted = TRUE]
                   ELSE IF hit THEN [Respond(@, 409, "duplicate") EXCEPT !.releases = @ + 1]
                   ELSE [@ EXCEPT !.pc = "insert"]]
    /\ UNCHANGED <<boot, variant, payslips, started>>

\* another transaction holds an uncommitted row with the same key: the INSERT waits
InsertWaits(c, row) ==
    \E o \in Clients \ {c} : \E x \in clients[o].pending :
        x.payslip_id = row.payslip_id \/ KeyOf(x) = KeyOf(row)

\* the INSERT returns
ClientInsert(r) ==
    /\ variant = "part000" /\ req[r].pc = "insert"
    /\ LET c   == req[r].client
           p   == req[r].params[1]
           out == InsertOutcome(p, payslips \cup clients[c].pending)
       IN  \E fail \in FaultChoices :
             /\ fail \/ out = "data" \/ ~InsertWaits(c, StoredRow(p))
             /\ faults' = IF fail THEN faults + 1 ELSE faults
             /\ clients' = [clients EXCEPT ![c] =
                   IF fail THEN Break(@)
                   ELSE IF out = "ok" THEN [@ EXCEPT !.pending = @ \cup {StoredRow(p)}]
                   ELSE [@ EXCEPT !.txn = "aborted"]]
             /\ req' = [req EXCEPT ![r] =
                   IF fail THEN [@ EXCEPT !.pc = "catch", !.faulted = TRUE]
                   ELSE IF out = "ok" THEN [@ EXCEPT !.pc = "commit", !.outcome = out]
                   ELSE [@ EXCEPT !.pc = "catch", !.outcome = out]]
    /\ UNCHANGED <<boot, variant, payslips, started>>

\* COMMIT returns; success answers 201 and leaves through finally
ClientCommit(r) ==
    /\ variant = "part000" /\ req[r].pc = "commit"
    /\ LET c == req[r].client
       IN  \E fail \in FaultChoices :
             /\ faults' = IF fail THEN faults + 1 ELSE faults
             /\ payslips' = IF fail THEN payslips ELSE payslips \cup clients[c].pending
             /\ clients' = [clients EXCEPT ![c] =
                   IF fail THEN Break(@)
                   ELSE Finally([@ EXCEPT !.txn = "idle", !.pending = {}])]
             /\ req' = [req EXCEPT ![r] =
                   IF fail THEN [@ EXCEPT !.pc = "catch", !.faulted = TRUE]
                   ELSE [Respond(@, 201, "") EXCEPT
                            !.data = <<StoredRow(req[r].params[1])>>, !.releases = @ + 1]]
    /\ UNCHANGED <<boot, variant, started>>

\* the catch block: ROLLBACK returns.  When it rejects, the catch block throws,
\* finally releases the client and the handler's promise rejects with no response
ClientRollback(r) ==
    /\ variant = "part000" /\ req[r].pc = "catch"
    /\ LET c == req[r].client
       IN  \E fail \in FaultChoices :
             LET thrown == fail \/ clients[c].broken
             IN  /\ faults' = IF fail THEN faults + 1 ELSE faults
                 /\ clients' = [clients EXCEPT ![c] =
                       IF thrown THEN Finally(Break(@))
                       ELSE Finally([@ EXCEPT !.txn = "idle", !.pending = {}])]
                 /\ req' = [req EXCEPT ![r] =
                       IF thrown
                       THEN [@ EXCEPT !.pc = "crashed", !.faulted = TRUE, !.releases = @ + 1]
                       ELSE [Respond(@, 500, "internal") EXCEPT !.releases = @ + 1]]
    /\ UNCHANGED <<boot, variant, payslips, started>>

\* concurrent creates in either variant
Next ==
    \E r \in Slots :
        \/ /\ started < MaxRequests
           /\ \E b \in RaceBodies : \E rnd \in Suffixes : ServerPostPayslips(r, b, rnd)
        \/ ServerCheck(r)
        \/ ServerInsert(r)
        \/ /\ started < MaxRequests
           /\ \E b \in RaceBodies : RouterPostPayslips(r, b)
        \/ \E rnd \in Suffixes : PoolConnect(r, rnd)
        \/ ClientBegin(r)
        \/ ClientExists(r)
        \/ ClientInsert(r)
        \/ ClientCommit(r)
        \/ ClientRollback(r)

Spec == Init /\ [][Next]_vars

(***************************************************************************)
(* Properties of the create endpoint                                       *)
(***************************************************************************)
Ended(q) == q.pc \in {"done", "crashed"}

\* the records stored for the (employee_id, month_year) pair of body b
RecordsFor(b) ==
    {x \in payslips : x.employee_id = Str(ToStr(b.employee_id))
                      /\ x.month_year = Str(ToStr(b.month_year))}

\* C1: in both variants and under every interleaving of creates, the payslips table
\* holds at most one record for any (employee_id, month_year) pair
C1_UniquePerEmployeeMonth ==
    \A x \in payslips : \A y \in payslips : KeyOf(x) = KeyOf(y) => x = y

\* two creates for the same pair raced past the pre-check: one was stored, the INSERT
\* of the other was rejected by the uniqueness constraint
C1_Witness ==
    \E r \in Slots : \E o \in Slots \ {r} :
        /\ req[r].status = 201 /\ req[o].outcome = "unique"
        /\ RecordsFor(req[r].body) = RecordsFor(req[o].body)
        /\ Cardinality(RecordsFor(req[r].body)) = 1

\* C2: a create of a payload the validator accepts, handled with no other request in
\* flight and no store failure, answers 201 when the pair was not yet stored (the
\* first call) and a duplicate error (409 / 400) when it was (the second call), and
\* leaves exactly one record for the pair
C2_TwiceInSequence ==
    \A r \in Slots :
        (/\ req[r].kind = "create" /\ Ended(req[r])
         /\ req[r].error # "validation" /\ req[r].alone /\ ~req[r].faulted)
        => /\ Cardinality(RecordsFor(req[r].body)) = 1
           /\ IF req[r].existed
              THEN req[r].error = "duplicate" /\ req[r].status \in {400, 409}
              ELSE req[r].status = 201

\* C3: a create whose INSERT the uniqueness constraint rejects (it lost the race after
\* passing the pre-check) is answered with a duplicate error (409 / 400), not 500
C3_RaceLoserGetsDuplicate ==
    \A r \in Slots :
        (req[r].kind = "create" /\ Ended(req[r]) /\ req[r].outcome = "unique")
        => req[r].error = "duplicate" /\ req[r].status \in {400, 409}

\* C9: in part_000 a create handler that has ended has released the client it
\* acquired exactly once, a running handler has released nothing, and no client is
\* checked out except by a running handler
C9_ReleasedExactlyOnce ==
    variant = "part000" =>
        /\ \A r \in Slots :
              /\ req[r].acquired \in {0, 1}
              /\ Ended(req[r]) => req[r].releases = req[r].acquired
              /\ Active(req[r]) => req[r].releases = 0
        /\ \A c \in Clients :
              clients[c].busy <=>
                  \E r \in Slots : Active(req[r]) /\ req[r].acquired = 1
                                   /\ req[r].client = c

\* the ROLLBACK of the catch block failed and the handler ended without a response,
\* with its client released
C9_Witness ==
    \E r \in Slots :
        /\ req[r].pc = "crashed" /\ req[r].acquired = 1 /\ req[r].releases = 1
        /\ ~clients[req[r].client].busy

\* C10: every store failure is caught inside the handler and answered with 500: no
\* handler ends without a response
C10_StoreFailuresAnswered ==
    \A r \in Slots :
        /\ req[r].pc # "crashed"
        /\ (Ended(req[r]) /\ req[r].faulted) => req[r].status = 500

\* C12: no client is in the pool (released, not checked out) with the transaction
\* that a create handler opened with BEGIN still open
C12_NoOpenTransactionInPool ==
    \A c \in Clients : ~clients[c].busy => clients[c].txn = "idle"

(***************************************************************************)
(* One create at a time over bodies that break single field rules          *)
(***************************************************************************)
NextValidate ==
    \E r \in {1} :
        \/ /\ started < MaxRequestsValidate
           /\ \E b \in ValidateBodies : \E rnd \in Suffixes : ServerPostPayslips(r, b, rnd)
        \/ ServerCheck(r)
        \/ ServerInsert(r)
        \/ /\ started < MaxRequestsValidate
           /\ \E b \in ValidateBodies : RouterPostPayslips(r, b)
        \/ \E rnd \in Suffixes : PoolConnect(r, rnd)
        \/ ClientBegin(r)
        \/ ClientExists(r)
        \/ ClientInsert(r)
        \/ ClientCommit(r)
        \/ ClientRollback(r)

SpecValidate == Init /\ [][NextValidate]_vars

\* the monetary fields other than basic_salary that the running variant reads
OtherMoney == IF variant = "server" THEN ServerMoney ELSE PartMoney

\* a JSON value that is no number: absent, null, or a string that is no numeral
NotNumeric(v) == v.t \in {"undef", "null"} \/ (v.t = "str" /\ ~IsIntStr(v.s))

\* the fields of body b that break their rule of the validator table
RuleBreakers(b) ==
    {f \in {"employee_id"} :
        ~(b[f].t = "str" /\ MatchEmployeeId(b[f].s)) \/ b[f] = Str(ATS0000)}
    \cup {f \in {"month_year"} : ~(b[f].t = "str" /\ MatchMonthYear(b[f].s))}
    \cup {f \in {"employee_email"} : ~(b[f].t = "str" /\ MatchEmailPart(b[f].s))}
    \cup {f \in {"basic_salary"} : NotNumeric(b[f]) \/ JsLeqZero(b[f])}
    \cup {f \in OtherMoney \ {"other_deduction"} : NotNumeric(b[f]) \/ JsLtZero(b[f])}
    \cup {f \in OtherMoney \cap {"other_deduction"} :
             (b[f].t = "str" /\ ~IsIntStr(b[f].s)) \/ JsLtZero(b[f])}

\* C4: a create whose body breaks a field rule is answered 400 with a validation
\* error naming that field as soon as it arrives: its handler never runs (so the
\* table is not touched on its behalf)
C4_RuleBreakersRejected ==
    \A r \in Slots :
        req[r].kind = "create" =>
            \A f \in RuleBreakers(req[r].body) :
                /\ req[r].pc = "done" /\ req[r].status = 400
                /\ req[r].error = "validation"
                /\ \E i \in 1..Len(req[r].errors) : req[r].errors[i] = f

\* the number a stored column holds (0 for NULL)
Stored(row, c) == IF row[c].t = "num" THEN row[c].n ELSE 0

\* earnings minus deductions of a stored row, from its component columns
NetOfComponents(row) ==
    IF variant = "server"
    THEN (Stored(row, "basic_salary") + Stored(row, "da") + Stored(row, "hra")
            + Stored(row, "wage_allowance") + Stored(row, "medical_allowance"))
         - (Stored(row, "pf") + Stored(row, "esi") + Stored(row, "tds")
            + Stored(row, "lwp") + Stored(row, "special_deduction"))
    ELSE (Stored(row, "basic_salary") + Stored(row, "hra") + Stored(row, "other_allowance"))
         - (Stored(row, "professional_tax") + Stored(row, "tds")
            + Stored(row, "provident_fund") + Stored(row, "lwp")
            + Stored(row, "other_deduction"))

\* C5: every stored record has net_salary = (basic_salary + allowances) - deductions
\* of its own components, whatever net_salary the caller sent
C5_NetSalaryOfComponents ==
    \A x \in payslips :
        x.net_salary.t = "num" /\ x.net_salary.n = NetOfComponents(x)

(***************************************************************************)
(* router.get('/payslips/:id') of part_000                                 *)
(***************************************************************************)
\* the request arrives and the handler awaits pool.query
RouterGetPayslip(r, id) ==
    /\ variant = "part000"
    /\ Arrive(r, [IdleReq EXCEPT !.kind = "lookup", !.pc = "lookup", !.query = Q("id", id)])
    /\ UNCHANGED <<variant, payslips, clients, faults>>

\* the SELECT returns: 404 for no row, else result.rows[0]
PayslipQueryReturns(r) ==
    /\ req[r].kind = "lookup" /\ req[r].pc = "lookup"
    /\ \E fail \in FaultChoices :
         /\ faults' = IF fail THEN faults + 1 ELSE faults
         /\ LET found == PayslipsById(payslips, req[r].query.id)
            IN  IF fail
                THEN req' = [req EXCEPT ![r] =
                                [Respond(@, 500, "internal") EXCEPT !.faulted = TRUE]]
                ELSE IF found = {}
                THEN req' = [req EXCEPT ![r] =
                                [Respond(@, 404, "not_found") EXCEPT !.seenData = payslips]]
                ELSE \E x \in found :
                        req' = [req EXCEPT ![r] =
                                [Respond(@, 200, "") EXCEPT !.data = <<x>>,
                                                            !.seenData = payslips]]
    /\ UNCHANGED <<boot, variant, payslips, clients, started>>

(***************************************************************************)
(* router.get('/payslips/history') of part_000                             *)
(***************************************************************************)
\* the request arrives: offset is computed and Promise.all starts both queries
RouterGetHistory(r, q) ==
    /\ variant = "part000"
    /\ Arrive(r, [IdleReq EXCEPT !.kind = "history", !.pc = "history", !.query = q])
    /\ UNCHANGED <<variant, payslips, clients, faults>>

\* res.json({ data, pagination }) once both queries have returned
HistoryResponse(q) ==
    IF q.dataDone /\ q.countDone
    THEN [Respond(q, 200, "") EXCEPT !.data = q.rows,
                                     !.pagination = Pagination(q.query, q.count)]
    ELSE q

\* the query of getPayslips returns; a failure rejects Promise.all (500)
GetPayslips(r) ==
    /\ req[r].kind = "history" /\ req[r].pc = "history" /\ ~req[r].dataDone
    /\ \E fail \in FaultChoices :
         /\ faults' = IF fail THEN faults + 1 ELSE faults
         /\ IF fail \/ GetPayslipsFails(payslips, req[r].query)
            THEN req' = [req EXCEPT ![r] =
                            [Respond(@, 500, "internal") EXCEPT !.faulted = fail]]
            ELSE \E rows \in GetPayslipsResults(payslips, req[r].query) :
                    req' = [req EXCEPT ![r] =
                            HistoryResponse([@ EXCEPT !.rows = rows, !.dataDone = TRUE,
                                                      !.seenData = payslips])]
    /\ UNCHANGED <<boot, variant, payslips, clients, started>>

\* the query of getPayslipCount returns; a failure rejects Promise.all (500)
GetPayslipCount(r) ==
    /\ req[r].kind = "history" /\ req[r].pc = "history" /\ ~req[r].countDone
    /\ \E fail \in FaultChoices :
         /\ faults' = IF fail THEN faults + 1 ELSE faults
         /\ req' = [req EXCEPT ![r] =
               IF fail \/ HistoryFilterFails(payslips, @.query)
               THEN [Respond(@, 500, "internal") EXCEPT !.faulted = fail]
               ELSE HistoryResponse([@ EXCEPT
                        !.count = GetPayslipCountResult(payslips, req[r].query),
                        !.countDone = TRUE, !.seenCount = payslips])]
    /\ UNCHANGED <<boot, variant, payslips, clients, started>>

(***************************************************************************)
(* app.get('/api/payslips') of server.js (employee self-service)           *)
(***************************************************************************)
\* the request arrives: the parameter checks, then the authorization query is sent
AppGetPayslips(r, q) ==
    /\ variant = "server"
    /\ LET s == [IdleReq EXCEPT !.kind = "self", !.query = q]
       IN  Arrive(r, IF SelfParamError(q) # ""
                     THEN [Respond(s, 400, "validation") EXCEPT
                              !.errors = <<SelfParamError(q)>>]
                     ELSE [s EXCEPT !.pc = "auth"])
    /\ UNCHANGED <<variant, payslips, clients, faults>>

\* the authorization query returns: 403 for no row, else the range checks and the
\* listing query is sent
SelfAuthReturns(r) ==
    /\ req[r].kind = "self" /\ req[r].pc = "auth"
    /\ \E fail \in FaultChoices :
         /\ faults' = IF fail THEN faults + 1 ELSE faults
         /\ req' = [req EXCEPT ![r] =
               IF fail THEN [Respond(@, 500, "internal") EXCEPT !.faulted = TRUE]
               ELSE IF ~SelfAuthorized(payslips, @.query)
                    THEN [Respond(@, 403, "forbidden") EXCEPT !.seenCount = payslips]
               ELSE IF SelfRangeError(@.query) # ""
                    THEN [Respond(@, 400, "validation") EXCEPT
                             !.errors = <<SelfRangeError(req[r].query)>>,
                             !.seenCount = payslips]
               ELSE [@ EXCEPT !.pc = "list", !.seenCount = payslips]]
    /\ UNCHANGED <<boot, variant, payslips, clients, started>>

\* the listing query returns
SelfListReturns(r) ==
    /\ req[r].kind = "self" /\ req[r].pc = "list"
    /\ \E fail \in FaultChoices :
         /\ faults' = IF fail THEN faults + 1 ELSE faults
         /\ IF fail \/ SelfListFails(payslips, req[r].query)
            THEN req' = [req EXCEPT ![r] =
                            [Respond(@, 500, "internal") EXCEPT !.faulted = fail]]
            ELSE \E rows \in SelfListResults(payslips, req[r].query) :
                    req' = [req EXCEPT ![r] =
                            [Respond(@, 200, "") EXCEPT !.data = rows,
                                                        !.seenData = payslips]]
    /\ UNCHANGED <<boot, variant, payslips, clients, started>>

\* C13: the identifier generated for a create that passed the validator has at most
\* 20 characters, and no INSERT is rejected because of its identifier's length
C13_IdentifierFits ==
    \A r \in Slots :
        (req[r].kind = "create" /\ req[r].params # <<>>) =>
            LET p == req[r].params[1]
            IN  /\ Len(p.payslip_id.s) <= PayslipIdMax
                /\ req[r].outcome = "data" =>
                      \E c \in DOMAIN p \ {"payslip_id"} : ~ColumnAccepts(c, p[c])

(***************************************************************************)
(* Creates and lookups by identifier in part_000                           *)
(***************************************************************************)
InitLookup == Init /\ variant = "part000"

NextLookup ==
    \E r \in Slots :
        \/ /\ started < MaxRequestsLookup
           /\ \E b \in LookupBodies : RouterPostPayslips(r, b)
        \/ \E rnd \in Suffixes : PoolConnect(r, rnd)
        \/ ClientBegin(r)
        \/ ClientExists(r)
        \/ ClientInsert(r)
        \/ ClientCommit(r)
        \/ ClientRollback(r)
        \/ /\ started < MaxRequestsLookup
           /\ \E id \in LookupIds : RouterGetPayslip(r, id)
        \/ PayslipQueryReturns(r)

SpecLookup == InitLookup /\ [][NextLookup]_vars

\* a lookup the store answered
Looked(q) == q.kind = "lookup" /\ Ended(q) /\ ~q.faulted

\* C8: a lookup of an identifier that no create has inserted is answered 404; a lookup
\* of the identifier a successful create returned is answered, once that create's row
\* is in the table, 200 with exactly the fields that create stored and returned
C8_LookupReturnsStoredRecord ==
    \A l \in Slots :
        Looked(req[l]) =>
            /\ PayslipsById(payslips, req[l].query.id) = {} => req[l].status = 404
            /\ \A c \in Slots :
                 ( /\ req[c].kind = "create" /\ req[c].status = 201
                   /\ req[c].data[1].payslip_id = req[l].query.id )
                 => /\ req[l].status \in {200, 404}
                    /\ req[l].status = 200 => req[l].data = req[c].data
                    /\ req[c].data[1] \in req[l].seenData => req[l].status = 200

\* a create answered 201 and a lookup of its identifier answered 200, with a second
\* record in the table
C8_Witness ==
    \E l \in Slots : \E c \in Slots :
        /\ Looked(req[l]) /\ req[l].status = 200
        /\ req[c].kind = "create" /\ req[c].status = 201
        /\ req[c].data[1].payslip_id = req[l].query.id
        /\ Cardinality(payslips) = 2

(***************************************************************************)
(* One history request over a table that creates have filled (part_000)    *)
(***************************************************************************)
HistoryStores == StoresAfter(CreateParams("part000", HistoryBodies), MaxRows)

\* the query strings: page and limit, alone or with one filter
HistoryQueries ==
    { [NoQueryFields EXCEPT !.page = pg, !.limit = lm, ![f[1]] = f[2]] :
        pg \in {Undef, Str(<<"1">>), Str(<<"2">>), Str(<<"3">>)},
        lm \in {Undef, Str(<<"1">>), Str(<<"2">>)},
        f \in { <<"search", Undef>>, <<"search", Str(<<"b","o","b">>)>>,
                <<"month", Str(<<"5">>)>>, <<"year", Str(<<"2","0","2","4">>)>> } }

InitHistory ==
    /\ variant = "part000"
    /\ payslips \in HistoryStores
    /\ clients = [c \in Clients |-> FreshClient]
    /\ req = [r \in Slots |-> IdleReq]
    /\ faults = 0
    /\ started = 0
    /\ boot = Booted

NextHistory ==
    \E r \in {1} :
        \/ /\ started < MaxRequestsRead
           /\ \E q \in HistoryQueries : RouterGetHistory(r, q)
        \/ GetPayslips(r)
        \/ GetPayslipCount(r)

SpecHistory == InitHistory /\ [][NextHistory]_vars

\* the records at positions (p - 1) * n + 1 .. p * n of a listing
PageSlice(ord, p, n) == SubSeq(ord, (p - 1) * n + 1, Min(p * n, Len(ord)))

\* the listings of the filtered set by descending pay period, then employee id
HistoryListings(rows, q) ==
    LET S == {x \in HistoryFilter(rows, q) : ToDate(x.month_year.s).ok}
    IN  Orders(S, HistoryKey(S))

\* the response is the page the request asked for
IsPageOfFilteredSet(q) ==
    LET p     == ParseInt(PageOf(q.query)).n
        n     == ParseInt(LimitOf(q.query)).n
        total == Cardinality(HistoryFilter(payslips, q.query))
    IN  /\ q.status = 200
        /\ \E ord \in HistoryListings(payslips, q.query) :
               Len(ord) = total /\ q.data = PageSlice(ord, p, n)
        /\ q.pagination.total = Num(total)
        /\ q.pagination.totalPages = Num((total + n - 1) \div n)

\* C6: every history request with page >= 1 and limit >= 1 that the store answers
\* returns the records at positions (p-1)*n+1 .. p*n of the filtered set in order of
\* descending pay period, then employee id, and totalPages = ceil(total / limit)
C6_HistoryPage ==
    \A r \in Slots :
        (req[r].kind = "history" /\ Ended(req[r]) /\ ~req[r].faulted)
            => IsPageOfFilteredSet(req[r])

(***************************************************************************)
(* History requests while creates commit (part_000)                        *)
(***************************************************************************)
\* the query strings of the history requests that run beside creates
HistoryRaceQueries ==
    { [NoQueryFields EXCEPT !.limit = lm, !.year = y] :
        lm \in {Undef, Str(<<"1">>)}, y \in {Undef, Str(<<"2","0","2","4">>)} }

NextHistoryRace ==
    \E r \in Slots :
        \/ /\ started < MaxRequestsLookup
           /\ \E b \in LookupBodies : RouterPostPayslips(r, b)
        \/ \E rnd \in Suffixes : PoolConnect(r, rnd)
        \/ ClientBegin(r)
        \/ ClientExists(r)
        \/ ClientInsert(r)
        \/ ClientCommit(r)
        \/ ClientRollback(r)
        \/ /\ started < MaxRequestsLookup
           /\ \E q \in HistoryRaceQueries : RouterGetHistory(r, q)
        \/ GetPayslips(r)
        \/ GetPayslipCount(r)

SpecHistoryRace == InitLookup /\ [][NextHistoryRace]_vars

\* C14: in every 200 response of the history endpoint, pagination.total is the size
\* of the filtered set of the table that the data query read its page from
C14_TotalOfTheSetRead ==
    \A r \in Slots :
        (req[r].kind = "history" /\ req[r].status = 200) =>
            req[r].pagination.total =
                Num(Cardinality(HistoryFilter(req[r].seenData, req[r].query)))

(***************************************************************************)
(* One self-service request over a table that creates have filled          *)
(* (server.js)                                                             *)
(***************************************************************************)
SelfStores == StoresAfter(CreateParams("server", SelfBodies), MaxRows)

SelfQueries ==
    { [NoQueryFields EXCEPT !.employee_id = e, !.employee_email = m,
                            !.start_month = sm, !.end_month = em] :
        e  \in {Undef, Str(Emp1), Str(Emp2), Str(ATS0000)},
        m  \in {Undef, Str(MailA), Str(MailB), Str(ToUpperCase(MailA)),
                Str(<<"a","@","b",".","n","e","t">>)},
        sm \in {Undef, Str(June2024), Str(<<"J","u","n","e">>)},
        em \in {Undef, Str(May2024)} }

InitSelf ==
    /\ variant = "server"
    /\ payslips \in SelfStores
    /\ clients = [c \in Clients |-> FreshClient]
    /\ req = [r \in Slots |-> IdleReq]
    /\ faults = 0
    /\ started = 0
    /\ boot = Booted

NextSelf ==
    \E r \in {1} :
        \/ /\ started < MaxRequestsRead
           /\ \E q \in SelfQueries : AppGetPayslips(r, q)
        \/ SelfAuthReturns(r)
        \/ SelfListReturns(r)

SpecSelf == InitSelf /\ [][NextSelf]_vars

\* a finished self-service request for an employee who has records, with an
\* employee_email that is on none of them
MismatchedEmail(q) ==
    /\ q.kind = "self" /\ Ended(q)
    /\ q.query.employee_id.t = "str" /\ q.query.employee_email.t = "str"
    /\ \E x \in payslips : x.employee_id = q.query.employee_id
    /\ \A x \in payslips : x.employee_id = q.query.employee_id
                             => x.employee_email # q.query.employee_email

\* C7 as stated: such a request that the store answered gets 403 and no payslip data
C7_MismatchedEmailForbidden ==
    \A r \in Slots :
        (MismatchedEmail(req[r]) /\ ~req[r].faulted)
            => req[r].status = 403 /\ req[r].data = <<>>

\* C7: such a request gets no payslip data; it is answered 403 when the e-mail
\* address has the form the handler accepts and the store answers, 400 when the
\* address has not that form, 500 when the store fails
C7_MismatchedEmailNoData ==
    \A r \in Slots :
        MismatchedEmail(req[r])
            => /\ req[r].data = <<>>
               /\ req[r].status = IF ~MatchEmailServer(req[r].query.employee_email.s)
                                  THEN 400
                                  ELSE IF req[r].faulted THEN 500 ELSE 403

\* the employee has records under another address and the request was answered 403
C7_Witness ==
    \E r \in Slots : MismatchedEmail(req[r]) /\ req[r].status = 403

\* C15: every record in a 200 response of the self-service endpoint carries the
\* employee_email that the request submitted
C15_OnlyRecordsOfTheEmail ==
    \A r \in Slots :
        (req[r].kind = "self" /\ req[r].status = 200) =>
            \A i \in 1..Len(req[r].data) :
                req[r].data[i].employee_email = req[r].query.employee_email

(***************************************************************************)
(* The start of the process in both variants                               *)
(***************************************************************************)
\* process.exit(1)
Exited == [boot EXCEPT !.pc = "exited", !.listening = FALSE]

\* the module is run to its end.  server.js calls pool.connect() and, without
\* waiting, app.listen(); part_000 calls startServer(), which awaits
\* initializeDatabase() and so far only its pool.connect()
ProcessStarts ==
    /\ boot.pc = "load"
    /\ boot' = [boot EXCEPT !.pc = "connecting", !.listening = (variant = "server")]
    /\ UNCHANGED <<variant, payslips, clients, req, faults, started>>

\* pool.connect() of the start settles: the schema statements are sent, or the
\* rejection reaches the catch that exits
StartupConnect ==
    /\ boot.pc = "connecting"
    /\ \E ok \in BOOLEAN :
         boot' = IF ok THEN [boot EXCEPT !.pc = "initializing"] ELSE Exited
    /\ UNCHANGED <<variant, payslips, clients, req, faults, started>>

\* the schema statements settle.  part_000 drops and recreates the table and then
\* calls app.listen(); server.js keeps a table that exists.  A failure exits
StartupInitializeDatabase ==
    /\ boot.pc = "initializing"
    /\ \E ok \in BOOLEAN :
         IF ok
         THEN /\ boot' = [boot EXCEPT !.pc = "ready", !.listening = TRUE]
              /\ payslips' = IF variant = "part000" THEN {} ELSE payslips
         ELSE /\ boot' = Exited
              /\ UNCHANGED payslips
    /\ UNCHANGED <<variant, clients, req, faults, started>>

\* the process has not exited: its handlers go on
Running == boot.pc # "exited"

\* the process is started over a table that an earlier run left
InitStartup ==
    /\ \/ variant = "server" /\ payslips \in SelfStores
       \/ variant = "part000" /\ payslips \in HistoryStores
    /\ clients = [c \in Clients |-> FreshClient]
    /\ req = [r \in Slots |-> IdleReq]
    /\ faults = 0
    /\ started = 0
    /\ boot = [Booted EXCEPT !.pc = "load", !.listening = FALSE]

\* the start, and one read request handled while the process runs
NextStartup ==
    \/ ProcessStarts
    \/ StartupConnect
    \/ StartupInitializeDatabase
    \/ \E r \in {1} :
        \/ /\ started < MaxRequestsRead
           /\ \E q \in SelfQueries : AppGetPayslips(r, q)
        \/ Running /\ SelfAuthReturns(r)
        \/ Running /\ SelfListReturns(r)
        \/ /\ started < MaxRequestsRead
           /\ \E id \in LookupIds : RouterGetPayslip(r, id)
        \/ Running /\ PayslipQueryReturns(r)

SpecStartup == InitStartup /\ [][NextStartup]_vars

\* C11: no request is accepted before the store connection and the schema
\* initialization have completed, and a process that exits because they failed has
\* sent no response
C11_ServesOnlyAfterStartup ==
    /\ ~boot.early
    /\ boot.pc = "exited" => \A r \in Slots : req[r].status = 0

====
